---- MODULE Spec2Model ----
(***************************************************************************)
(* Model of the PDF outline extractor (src/process_pdfs.py).               *)
(*                                                                         *)
(* A text is a sequence of characters; a character is a one-element token: *)
(* an ASCII character stands for itself ("a", "1", " ", "."), any other    *)
(* code point is written "uXXXX" ("u3000" is the ideographic space).       *)
(* A font size is an integer number of half points (span["size"] is a      *)
(* float): Pt is one point, so that sizes less than a point apart exist.   *)
(* Ratios of font sizes (the average, the 1.2 and 0.9 factors) are         *)
(* compared exactly, by cross multiplication; the code compares            *)
(* floating-point numbers, which agrees with the exact comparison except   *)
(* when the two sides are equal up to rounding.  The font sizes drawn for  *)
(* the classifier (10, 13 and 16 points) never produce such a tie.         *)
(***************************************************************************)
EXTENDS Integers, Sequences, FiniteSets, TLC

VARIABLES
    \* ---- pure-function harness (clean_text, determine_heading_level, extract_title)
    fn_pc,      \* "call" | "once" | "twice"
    fn_arg,     \* the arguments of the function under check
    fn_ret,     \* the sequence of values returned so far
    \* ---- one call extract_outline(pdf_path, max_pages)
    pc,                 \* the position in extract_outline
    doc,                \* what the collaborator holds for pdf_path
    max_pages,
    handle,             \* the document handle: "none" | "open" | "closed"
    num_pages,
    page_num,           \* pages collected so far (the next page index)
    font_stats,
    heading_candidates,
    avg_font_size,      \* [num, den]; den = 0 before it is computed
    lines,
    line_idx,           \* the next line to classify (1-based)
    headings,
    heading_font_sizes,
    title,
    title_rule,         \* which fallback of extract_title gave the title
    h_idx,              \* the next heading to level (1-based)
    outline,
    result,             \* <<>> until the call returns, then <<the value returned>>
    failure,            \* "none", or where the exception caught came from
    is_heading_calls,   \* the avg_font_size passed to each is_heading call
    level_calls,        \* the font_sizes passed to each determine_heading_level call
    \* ---- one call process_pdfs(input_dir, output_dir)
    b_pc,               \* the position in process_pdfs
    input_dir,          \* os.listdir(input_dir): the files, each [name, doc]
    output_dir,
    pdf_files,
    file_idx,           \* the next element of pdf_files (1-based)
    pdf_file,
    output_file,        \* [dir, name]
    b_result,           \* the loop's variable result
    written             \* the files written: a set of [dir, name, content]

fnVars == <<fn_pc, fn_arg, fn_ret>>

pipeVars == <<pc, doc, max_pages, handle, num_pages, page_num, font_stats,
              heading_candidates, avg_font_size, lines, line_idx, headings,
              heading_font_sizes, title, title_rule, h_idx, outline, result,
              failure, is_heading_calls, level_calls>>

batchVars == <<b_pc, input_dir, output_dir, pdf_files, file_idx, pdf_file,
               output_file, b_result, written>>

vars == <<fnVars, pipeVars, batchVars>>

(***************************************************************************)
(* The unit of font sizes: one point, counted in half points.              *)
(***************************************************************************)
Pt == 2

(***************************************************************************)
(* Bounds of the model.                                                    *)
(***************************************************************************)
MaxLen == 3          \* longest text drawn for clean_text
MaxSizes == 3        \* longest list of heading font sizes drawn
MaxHeadings == 2     \* longest list of headings drawn for extract_title
MaxTitleSpans == 3   \* most spans on the first page drawn for extract_title
MaxSpans == 3        \* most spans in a document drawn for extract_outline
MaxDocPages == 2     \* most pages in a document drawn for extract_outline
MaxCandidates == 3   \* longest list of heading candidates drawn for the merging pass
MaxFiles == 3        \* most files in the input directory drawn for process_pdfs

\* the default of extract_outline's max_pages parameter
DefaultMaxPages == 100

(***************************************************************************)
(* Characters.                                                             *)
(***************************************************************************)
TAB     == "u0009"   \* category Cc, and whitespace
BEL     == "u0007"   \* category Cc
IDEO    == "u3000"   \* IDEOGRAPHIC SPACE: category Zs, East Asian width F
REPL    == "uFFFD"   \* REPLACEMENT CHARACTER: category So
OVERLAY == "u0338"   \* COMBINING LONG SOLIDUS OVERLAY: category Mn
CJKDOT  == "u3002"   \* IDEOGRAPHIC FULL STOP, width W
CJKCOMMA == "u3001"  \* IDEOGRAPHIC COMMA, width W
DANDA   == "u0964"   \* DEVANAGARI DANDA
ENDASH  == "u2013"
EMDASH  == "u2014"
ARCOMMA == "u060C"   \* ARABIC COMMA
ARSEMI  == "u061B"   \* ARABIC SEMICOLON
FWQUEST == "uFF1F"   \* FULLWIDTH QUESTION MARK
FWEXCL  == "uFF01"   \* FULLWIDTH EXCLAMATION MARK
ZHANG   == "u7AE0"   \* CJK "chapter"
SETSU   == "u7BC0"   \* CJK "section"

Digits  == {"0", "1", "2", "3", "4", "5", "6", "7", "8", "9"}
UpperCh == {"A", "B", "C", "D", "E", "F", "G", "H", "I", "J", "K", "L", "M",
            "N", "O", "P", "Q", "R", "S", "T", "U", "V", "W", "X", "Y", "Z"}
LowerCh == {"a", "b", "c", "d", "e", "f", "g", "h", "i", "j", "k", "l", "m",
            "n", "o", "p", "q", "r", "s", "t", "u", "v", "w", "x", "y", "z"}

\* unicodedata.category(ch)[0] == 'C'
ControlCh == {TAB, BEL}
\* characters matched by \s and removed by str.strip()
SpaceCh == {" ", TAB, IDEO}
\* the character class of the trailing-punctuation pattern of clean_text
TrailPunctCh == {",", ":", ";", ".", "-", ENDASH, EMDASH, CJKDOT, CJKCOMMA,
                 DANDA, ARCOMMA, ARSEMI}
\* unicodedata.east_asian_width(c) in ('W', 'F')
WideCh == {IDEO, CJKDOT, CJKCOMMA, FWQUEST, FWEXCL, ZHANG, SETSU,
           "u8457", "u8005", "u4F5C", "u6210", "u7DE8", "u96C6",
           "u76EE", "u6B21", "u7D22", "u5F15", "u9644", "u9332", "u53C2",
           "u8003", "u6587", "u732E", "u7528", "u8A9E", "u6982", "u8981"}

Max(a, b) == IF a >= b THEN a ELSE b
Min(a, b) == IF a <= b THEN a ELSE b

\* every text of at most n characters over the alphabet A
TextsUpTo(A, n) == UNION {[1..k -> A] : k \in 0..n}

(***************************************************************************)
(* clean_text  (src/process_pdfs.py:60-116)                                *)
(***************************************************************************)
\* unicodedata.normalize('NFC', text): a base character followed by a
\* combining mark is replaced by the precomposed character.  Of the model's
\* characters only "<", "=" and ">" compose, with the solidus overlay.
Composed == ("<" :> "u226E") @@ ("=" :> "u2260") @@ (">" :> "u226F")

RECURSIVE NFC(_)
NFC(t) ==
    IF Len(t) < 2 THEN t
    ELSE IF t[1] \in DOMAIN Composed /\ t[2] = OVERLAY
         THEN <<Composed[t[1]]>> \o NFC(SubSeq(t, 3, Len(t)))
         ELSE <<t[1]>> \o NFC(Tail(t))

\* ''.join(ch for ch in text if unicodedata.category(ch)[0] != 'C')
StripControl(t) == SelectSeq(t, LAMBDA c : c \notin ControlCh)

\* re.sub(r'\s+', ' ', text)
RECURSIVE CollapseSpaces(_)
CollapseSpaces(t) ==
    IF t = <<>> THEN <<>>
    ELSE IF t[1] \in SpaceCh
         THEN IF Len(t) >= 2 /\ t[2] \in SpaceCh
              THEN CollapseSpaces(Tail(t))
              ELSE <<" ">> \o CollapseSpaces(Tail(t))
         ELSE <<t[1]>> \o CollapseSpaces(Tail(t))

\* the first index at or after i whose character is not in S (Len(t) + 1 if none)
SkipWhile(t, i, S) ==
    LET stops == {k \in i..Len(t) : t[k] \notin S}
    IN  IF stops = {} THEN Max(i, Len(t) + 1)
        ELSE CHOOSE k \in stops : \A m \in stops : k <= m

\* the last index whose character is not in S (0 if none)
LastOutside(t, S) ==
    LET keeps == {k \in 1..Len(t) : t[k] \notin S}
    IN  IF keeps = {} THEN 0
        ELSE CHOOSE k \in keeps : \A m \in keeps : k >= m

\* str.lstrip(), str.rstrip(), str.strip()
LStrip(t) == SubSeq(t, SkipWhile(t, 1, SpaceCh), Len(t))
RStrip(t) == SubSeq(t, 1, LastOutside(t, SpaceCh))
Strip(t) == RStrip(LStrip(t))

\* re.sub(r'[,:;.\-...]+$', '', text)
StripTrailPunct(t) == SubSeq(t, 1, LastOutside(t, TrailPunctCh))

\* text.replace('　', ' ')
ReplaceIdeo(t) == [i \in 1..Len(t) |-> IF t[i] = IDEO THEN " " ELSE t[i]]

\* text.replace('�', '')
RemoveRepl(t) == SelectSeq(t, LAMBDA c : c # REPL)

clean_text(text) ==
    IF text = <<>> THEN <<>>
    ELSE RemoveRepl(ReplaceIdeo(StripTrailPunct(Strip(
             CollapseSpaces(StripControl(NFC(text)))))))

(***************************************************************************)
(* Helpers for the regular expressions and string methods of the source.   *)
(***************************************************************************)
\* str.lower() on the letters of the model's alphabet
LowerOf ==
    ("A" :> "a") @@ ("B" :> "b") @@ ("C" :> "c") @@ ("D" :> "d") @@ ("E" :> "e") @@ ("F" :> "f")
    @@ ("G" :> "g") @@ ("H" :> "h") @@ ("I" :> "i") @@ ("J" :> "j") @@ ("K" :> "k") @@ ("L" :> "l")
    @@ ("M" :> "m") @@ ("N" :> "n") @@ ("O" :> "o") @@ ("P" :> "p") @@ ("Q" :> "q") @@ ("R" :> "r")
    @@ ("S" :> "s") @@ ("T" :> "t") @@ ("U" :> "u") @@ ("V" :> "v") @@ ("W" :> "w") @@ ("X" :> "x")
    @@ ("Y" :> "y") @@ ("Z" :> "z")

Lower(t) == [i \in 1..Len(t) |-> IF t[i] \in DOMAIN LowerOf THEN LowerOf[t[i]] ELSE t[i]]

\* the first index at or after i that holds no digit (\d*)
SkipDigits(t, i) == SkipWhile(t, i, Digits)

\* the first index at or after i that holds no whitespace (\s*)
SkipSpaces(t, i) == SkipWhile(t, i, SpaceCh)

At(t, i) == IF i >= 1 /\ i <= Len(t) THEN t[i] ELSE "EOT"

\* the index after zero or more groups (\.\d+)* starting at i
RECURSIVE SkipDotGroups(_, _)
SkipDotGroups(t, i) ==
    IF At(t, i) = "." /\ At(t, i + 1) \in Digits
    THEN SkipDotGroups(t, SkipDigits(t, i + 1))
    ELSE i

\* re.match(r'^\d+\.\s+', text)
MatchNumbered1(t) ==
    LET j == SkipDigits(t, 1) IN j > 1 /\ At(t, j) = "." /\ At(t, j + 1) \in SpaceCh

\* re.match(r'^\d+\.\d+', text)
MatchNumbered2(t) ==
    LET j == SkipDigits(t, 1) IN j > 1 /\ At(t, j) = "." /\ At(t, j + 1) \in Digits

\* re.match(r'^\d+\.\d+\.\d+', text)
MatchNumbered3(t) ==
    LET j == SkipDigits(t, 1)
        k == SkipDigits(t, j + 1)
    IN  /\ j > 1 /\ At(t, j) = "." /\ k > j + 1
        /\ At(t, k) = "." /\ At(t, k + 1) \in Digits

\* re.match(r'^\d+(\.\d+)*\.?\s+', text)
MatchNumberedPrefix(t) ==
    LET j == SkipDigits(t, 1)
        k == SkipDotGroups(t, j)
        m == IF At(t, k) = "." THEN k + 1 ELSE k
    IN  j > 1 /\ At(t, m) \in SpaceCh

\* text starts with word, ignoring case
StartsWithCI(t, word) ==
    Len(t) >= Len(word) /\ Lower(SubSeq(t, 1, Len(word))) = word

\* re.match(r'^(w1|w2|...)\s*\d+', text, re.IGNORECASE)
MatchChapter(t, words) ==
    \E w \in words :
        StartsWithCI(t, w) /\ At(t, SkipSpaces(t, Len(w) + 1)) \in Digits

\* re.search(pat, text) for a literal pat
Contains(t, pat) ==
    \E i \in 1..(Len(t) - Len(pat) + 1) : SubSeq(t, i, i + Len(pat) - 1) = pat

\* sorted(font_sizes, reverse=True)
RECURSIVE InsertDesc(_, _)
InsertDesc(s, x) ==
    IF s = <<>> THEN <<x>>
    ELSE IF x > s[1] THEN <<x>> \o s
         ELSE <<s[1]>> \o InsertDesc(Tail(s), x)
RECURSIVE SortDesc(_)
SortDesc(s) == IF s = <<>> THEN <<>> ELSE InsertDesc(SortDesc(Tail(s)), s[1])

\* sum(2 if unicodedata.east_asian_width(c) in ('W', 'F') else 1 for c in text)
EffectiveLength(t) == Len(t) + Cardinality({i \in 1..Len(t) : t[i] \in WideCh})

(***************************************************************************)
(* determine_heading_level  (src/process_pdfs.py:204-267)                  *)
(***************************************************************************)
SectionNames == {
    <<"t", "a", "b", "l", "e", " ", "o", "f", " ", "c", "o", "n", "t", "e", "n", "t", "s">>,
    <<"i", "n", "d", "e", "x">>,
    <<"a", "p", "p", "e", "n", "d", "i", "x">>,
    <<"r", "e", "f", "e", "r", "e", "n", "c", "e", "s">>,
    <<"b", "i", "b", "l", "i", "o", "g", "r", "a", "p", "h", "y">>,
    <<"g", "l", "o", "s", "s", "a", "r", "y">>,
    <<"a", "b", "s", "t", "r", "a", "c", "t">>,
    <<"u76EE", "u6B21">>,
    <<"u7D22", "u5F15">>,
    <<"u9644", "u9332">>,
    <<"u53C2", "u8003", "u6587", "u732E">>,
    <<"u7528", "u8A9E", "u96C6">>,
    <<"u6982", "u8981">>,
    <<"u0935", "u093F", "u0937", "u092F", "-", "u0938", "u0942", "u091A", "u0940">>,
    <<"u0905", "u0928", "u0941", "u0915", "u094D", "u0930", "u092E", "u0923", "u093F", "u0915", "u093E">>,
    <<"u092A", "u0930", "u093F", "u0936", "u093F", "u0937", "u094D", "u091F">>,
    <<"u0938", "u0902", "u0926", "u0930", "u094D", "u092D">>,
    <<"u0936", "u092C", "u094D", "u0926", "u093E", "u0935", "u0932", "u0940">>,
    <<"u0938", "u093E", "u0930", "u093E", "u0902", "u0936">>}

LevelChapterWords == {
    <<"c", "h", "a", "p", "t", "e", "r">>,
    <<"s", "e", "c", "t", "i", "o", "n">>,
    <<"u7AE0">>,
    <<"u7BC0">>,
    <<"u0905", "u0927", "u094D", "u092F", "u093E", "u092F">>,
    <<"u0916", "u0902", "u0921">>}

\* members of the ranges 2460-2473, 3251-32BF and 2776-277F
CircledCh == {"u2460", "u2461", "u2473", "u3251", "u32BF", "u2776", "u277F"}

determine_heading_level(text, font_size, is_bold, font_sizes) ==
    IF font_sizes = <<>>
    THEN IF is_bold /\ font_size >= 14 * Pt THEN "H1"
         ELSE IF is_bold \/ font_size >= 12 * Pt THEN "H2"
         ELSE "H3"
    ELSE
    LET sorted_sizes == SortDesc(font_sizes) IN
    IF Lower(text) \in SectionNames THEN "H1"
    ELSE IF MatchChapter(text, LevelChapterWords) THEN "H1"
    ELSE IF MatchNumbered1(text) THEN "H1"
    ELSE IF MatchNumbered2(text) THEN "H2"
    ELSE IF MatchNumbered3(text) THEN "H3"
    ELSE IF At(text, 1) \in CircledCh THEN "H2"
    ELSE IF Len(sorted_sizes) >= 3
         THEN IF 10 * font_size >= 9 * sorted_sizes[1] THEN "H1"
              ELSE IF 10 * font_size >= 9 * sorted_sizes[(Len(sorted_sizes) \div 2) + 1]
                   THEN "H2"
              ELSE "H3"
         ELSE IF 10 * font_size >= 9 * sorted_sizes[1] THEN "H1"
              ELSE IF is_bold THEN "H2" ELSE "H3"

(***************************************************************************)
(* is_heading  (src/process_pdfs.py:119-201)                               *)
(* avg_font_size is the ratio avg.num / avg.den.                           *)
(***************************************************************************)
\* the character class [~@#$%^&*_+=\\|<>/]
NoiseCh == {"~", "@", "#", "$", "%", "^", "&", "*", "_", "+", "=", "\\", "|", "<", ">", "/"}
\* the character class of end_punct
EndPunctCh == {".", CJKDOT, DANDA, "?", FWQUEST, "!", FWEXCL}
\* c.isalpha() and unicodedata.name(c, '').startswith('LATIN')
LatinCh == UpperCh \cup LowerCh

HeadingChapterWords == {
    <<"c", "h", "a", "p", "t", "e", "r">>,
    <<"s", "e", "c", "t", "i", "o", "n">>,
    <<"p", "a", "r", "t">>,
    <<"u7AE0">>,
    <<"u7BC0">>,
    <<"u092D", "u093E", "u0917">>,
    <<"u0905", "u0927", "u094D", "u092F", "u093E", "u092F">>,
    <<"u0916", "u0902", "u0921">>}

AttributionEnglish == {
    <<"w", "r", "i", "t", "t", "e", "n", " ", "b", "y">>,
    <<"a", "u", "t", "h", "o", "r", "e", "d", " ", "b", "y">>,
    <<"p", "r", "e", "p", "a", "r", "e", "d", " ", "b", "y">>,
    <<"c", "o", "m", "p", "i", "l", "e", "d", " ", "b", "y">>,
    <<"e", "d", "i", "t", "e", "d", " ", "b", "y">>}

AttributionJapanese == {
    <<"u8457", "u8005">>,
    <<"u4F5C", "u6210", "u8005">>,
    <<"u7DE8", "u96C6", "u8005">>}

AttributionHindi == {
    <<"u0926", "u094D", "u0935", "u093E", "u0930", "u093E", " ", "u0932", "u093F", "u0916", "u093F", "u0924">>,
    <<"u0926", "u094D", "u0935", "u093E", "u0930", "u093E", " ", "u0924", "u0948", "u092F", "u093E", "u0930">>,
    <<"u0926", "u094D", "u0935", "u093E", "u0930", "u093E", " ", "u0938", "u0902", "u0915", "u0932", "u093F", "u0924">>}

\* the first index at or after i that holds whitespace
SkipNonSpaces(t, i) ==
    LET stops == {k \in i..Len(t) : t[k] \in SpaceCh}
    IN  IF stops = {} THEN Max(i, Len(t) + 1)
        ELSE CHOOSE k \in stops : \A m \in stops : k <= m

\* text.split()
RECURSIVE Split(_)
Split(t) ==
    LET s == LStrip(t)
        k == SkipNonSpaces(s, 1)
    IN  IF s = <<>> THEN <<>>
        ELSE <<SubSeq(s, 1, k - 1)>> \o Split(SubSeq(s, k, Len(s)))

\* text.isupper()
IsUpper(t) ==
    /\ \E i \in 1..Len(t) : t[i] \in UpperCh
    /\ \A i \in 1..Len(t) : t[i] \notin LowerCh

\* re.search(r'[.。।?？!！]\s*$', text)
EndsWithEndPunct(t) == LET s == RStrip(t) IN s # <<>> /\ s[Len(s)] \in EndPunctCh

\* sum(1 for w in words if w and w[0].isupper())
CapitalizedWords(words) == Cardinality({i \in 1..Len(words) : words[i][1] \in UpperCh})

is_heading(text, font_size, is_bold, avg) ==
    LET effective_length == EffectiveLength(text)
        has_latin == \E i \in 1..Len(text) : text[i] \in LatinCh
        words == Split(text)
    IN
    IF text = <<>> \/ Len(text) < 3 THEN FALSE
    ELSE IF effective_length > 200 THEN FALSE
    ELSE IF \E i \in 1..(Len(text) - 1) : text[i] \in NoiseCh /\ text[i + 1] \in NoiseCh
         THEN FALSE
    ELSE IF \E p \in AttributionEnglish : Contains(Lower(text), p) THEN FALSE
    ELSE IF \E p \in AttributionJapanese : Contains(text, p) THEN FALSE
    ELSE IF \E p \in AttributionHindi : Contains(text, p) THEN FALSE
    ELSE IF EndsWithEndPunct(text) /\ effective_length > 100 /\ ~MatchNumberedPrefix(text)
         THEN FALSE
    ELSE IF MatchNumberedPrefix(text) THEN TRUE
    ELSE IF MatchChapter(text, HeadingChapterWords) THEN TRUE
    ELSE IF 10 * font_size * avg.den > 12 * avg.num THEN TRUE
    ELSE IF is_bold /\ font_size * avg.den >= avg.num THEN TRUE
    ELSE IF has_latin
         THEN IF Len(words) <= 6 /\ 2 * CapitalizedWords(words) > Max(1, Len(words))
              THEN TRUE
              ELSE IsUpper(text) /\ Len(text) < 50
         ELSE Len(words) <= 10 /\ font_size * avg.den >= avg.num

(***************************************************************************)
(* The document handed over by the text-extraction collaborator.           *)
(*   doc.opens    whether fitz.open succeeds                               *)
(*   doc.title    doc.metadata.get("title"); <<>> when there is none       *)
(*   doc.npages   len(doc)                                                 *)
(*   doc.spans    the spans of all blocks and lines in reading order,      *)
(*                each [text, size, flags, font, page] with page 0-based   *)
(***************************************************************************)
\* the spans of doc[page_num], in order
PageSpans(d, page_index) == SelectSeq(d.spans, LAMBDA s : s.page = page_index)

(***************************************************************************)
(* extract_title  (src/process_pdfs.py:270-340)                            *)
(* The value is [raised, value, rule]: raised when doc[0] raises (the      *)
(* document has no page), otherwise the title and the fallback that gave   *)
(* it: "metadata", "heading", "largest_span", "vertical" or "default".     *)
(***************************************************************************)
UntitledDocument == <<"U", "n", "t", "i", "t", "l", "e", "d", " ", "D", "o", "c", "u", "m", "e", "n", "t">>

\* key=lambda h: (h["page"], -h["font_size"])
TitleKeyLess(a, b) ==
    a.page < b.page \/ (a.page = b.page /\ a.font_size > b.font_size)

\* sorted(headings, key=...): a stable sort
RECURSIVE InsertHeading(_, _)
InsertHeading(s, h) ==
    IF s = <<>> THEN <<h>>
    ELSE IF ~TitleKeyLess(h, s[Len(s)])
         THEN Append(s, h)
         ELSE Append(InsertHeading(SubSeq(s, 1, Len(s) - 1), h), s[Len(s)])
RECURSIVE SortHeadings(_)
SortHeadings(hs) ==
    IF hs = <<>> THEN <<>>
    ELSE InsertHeading(SortHeadings(SubSeq(hs, 1, Len(hs) - 1)), hs[Len(hs)])

\* a plausible slip: the first heading in detection order, without the sort
FirstHeadingUnsorted(hs) == hs[1].text

\* sorted_headings[0]["text"]
FirstHeadingText(hs) == SortHeadings(hs)[1].text

\* the loop over the first page's spans that keeps the largest text
RECURSIVE LargestText(_, _, _)
LargestText(spans, largest_text, largest_size) ==
    IF spans = <<>> THEN largest_text
    ELSE LET text == Strip(spans[1].text) IN
         IF spans[1].size > largest_size /\ EffectiveLength(text) > 3
         THEN LargestText(Tail(spans), text, spans[1].size)
         ELSE LargestText(Tail(spans), largest_text, largest_size)

\* ' '.join(parts)
RECURSIVE JoinSpace(_)
JoinSpace(parts) ==
    IF parts = <<>> THEN <<>>
    ELSE IF Len(parts) = 1 THEN parts[1]
    ELSE parts[1] \o <<" ">> \o JoinSpace(Tail(parts))

\* the vertical-title heuristic
VerticalTitle(spans) ==
    LET stripped == [i \in 1..Len(spans) |-> Strip(spans[i].text)]
        text_blocks == SelectSeq(stripped, LAMBDA b : Len(b) > 0)
        short_blocks == SelectSeq(SubSeq(text_blocks, 1, Min(5, Len(text_blocks))),
                                  LAMBDA b : 1 < Len(b) /\ Len(b) < 10)
    IN  IF Len(text_blocks) >= 3 /\ Len(short_blocks) >= 3
        THEN JoinSpace(SubSeq(short_blocks, 1, 3))
        ELSE <<>>

\* lines 297-340: the first-page fallbacks
FirstPageTitle(d) ==
    IF d.npages = 0 THEN [raised |-> TRUE, value |-> <<>>, rule |-> "none"]
    ELSE LET blocks == PageSpans(d, 0)
             largest == LargestText(blocks, <<>>, 0)
             largest_text == IF largest = <<>> THEN VerticalTitle(blocks) ELSE largest
         IN  IF largest # <<>>
             THEN [raised |-> FALSE, value |-> largest, rule |-> "largest_span"]
             ELSE IF largest_text # <<>>
             THEN [raised |-> FALSE, value |-> largest_text, rule |-> "vertical"]
             ELSE [raised |-> FALSE, value |-> UntitledDocument, rule |-> "default"]

extract_title(d, hs) ==
    IF d.title # <<>> /\ Len(Strip(d.title)) > 3
    THEN [raised |-> FALSE, value |-> Strip(d.title), rule |-> "metadata"]
    ELSE IF /\ hs # <<>>
            /\ EffectiveLength(FirstHeadingText(hs)) < 150
            /\ ~MatchNumbered1(FirstHeadingText(hs))
         THEN [raised |-> FALSE, value |-> FirstHeadingText(hs), rule |-> "heading"]
         ELSE FirstPageTitle(d)

(***************************************************************************)
(* extract_outline  (src/process_pdfs.py:343-495)                          *)
(***************************************************************************)
\* names for which "bold", "heavy", "black" or "strong" is in font_name.lower()
BoldFontNames == {"Helvetica-Bold", "Arial-Black", "Avenir-Heavy", "Strong-Sans"}

\* lines 392-399
IsBoldSpan(span) == (span.flags \div 2) % 2 = 1 \/ span.font \in BoldFontNames

\* lines 383-407 for the spans of one page: (font_stats, heading_candidates)
\* extended by every span whose stripped text is not empty
RECURSIVE CollectSpans(_, _, _, _)
CollectSpans(spans, page_index, stats, cands) ==
    IF spans = <<>> THEN [font_stats |-> stats, heading_candidates |-> cands]
    ELSE LET span == spans[1]
             text == Strip(span.text)
         IN  IF text = <<>>
             THEN CollectSpans(Tail(spans), page_index, stats, cands)
             ELSE CollectSpans(Tail(spans), page_index,
                      Append(stats, span.size),
                      Append(cands, [text |-> text, font_size |-> span.size,
                                     is_bold |-> IsBoldSpan(span),
                                     page |-> page_index + 1]))

\* sum(font_stats)
RECURSIVE Sum(_)
Sum(s) == IF s = <<>> THEN 0 ELSE s[1] + Sum(Tail(s))

\* line 412: sum(font_stats) / max(1, len(font_stats))
AverageFontSize(stats) == [num |-> Sum(stats), den |-> Max(1, Len(stats))]

Abs(x) == IF x < 0 THEN -x ELSE x

\* a plausible slip: the font sizes are not compared
SameLinePageOnly(candidate, current_line) == candidate.page = current_line.page

\* line 426-427: the candidate extends the current line
SameLine(candidate, current_line) ==
    /\ candidate.page = current_line.page
    /\ Abs(candidate.font_size - current_line.font_size) < 1 * Pt

\* a plausible slip: an extended line takes the font size of its last span,
\* so that each span is compared with the one before it
RECURSIVE MergeLoopLastSize(_, _, _)
MergeLoopLastSize(cands, current_line, done) ==
    IF cands = <<>>
    THEN IF current_line.text # <<>> THEN Append(done, current_line) ELSE done
    ELSE LET candidate == cands[1] IN
         IF current_line.text = <<>>
         THEN MergeLoopLastSize(Tail(cands), candidate, done)
         ELSE IF SameLine(candidate, current_line)
         THEN MergeLoopLastSize(Tail(cands),
                  [current_line EXCEPT
                       !.text = @ \o <<" ">> \o candidate.text,
                       !.font_size = candidate.font_size,
                       !.is_bold = @ \/ candidate.is_bold],
                  done)
         ELSE MergeLoopLastSize(Tail(cands), candidate, Append(done, current_line))

\* lines 419-438
RECURSIVE MergeLoop(_, _, _)
MergeLoop(cands, current_line, done) ==
    IF cands = <<>>
    THEN IF current_line.text # <<>> THEN Append(done, current_line) ELSE done
    ELSE LET candidate == cands[1] IN
         IF current_line.text = <<>>
         THEN MergeLoop(Tail(cands), candidate, done)
         ELSE IF SameLine(candidate, current_line)
         THEN MergeLoop(Tail(cands),
                  [current_line EXCEPT
                       !.text = @ \o <<" ">> \o candidate.text,
                       !.is_bold = @ \/ candidate.is_bold],
                  done)
         ELSE MergeLoop(Tail(cands), candidate, Append(done, current_line))

\* a plausible slip: the line still being built when the loop ends is not added
MergeSpansNoFlush(cands) ==
    LET ls == MergeLoop(cands,
                  [text |-> <<>>, font_size |-> 0, is_bold |-> FALSE, page |-> 0], <<>>)
    IN  SubSeq(ls, 1, Len(ls) - 1)

MergeSpans(cands) ==
    MergeLoop(cands, [text |-> <<>>, font_size |-> 0, is_bold |-> FALSE, page |-> 0], <<>>)

\* a plausible slip: the handler returns what was built so far
ErrorResultPartial == [title |-> <<"E", "r", "r", "o", "r">>, outline |-> outline]

\* line 495
ErrorResult == [title |-> <<"E", "r", "r", "o", "r">>, outline |-> <<>>]

\* a plausible slip: statistics taken as soon as one page is collected
CollectDoneEarly == page_num >= Min(1, num_pages)

\* the range(num_pages) loop of line 370 is exhausted
CollectDone == page_num = num_pages

\* a plausible slip: the page loop runs over len(doc), max_pages is ignored
OpenAllPages ==
    /\ UNCHANGED <<fnVars, batchVars>>
    /\ pc = "open"
    /\ IF doc.opens
       THEN /\ handle' = "open"
            /\ num_pages' = doc.npages
            /\ pc' = "collect"
            /\ UNCHANGED failure
       ELSE /\ pc' = "except"
            /\ failure' = "open"
            /\ UNCHANGED <<handle, num_pages>>
    /\ UNCHANGED <<doc, max_pages, page_num, font_stats, heading_candidates,
                   avg_font_size, lines, line_idx, headings, heading_font_sizes,
                   title, title_rule, h_idx, outline, result,
                   is_heading_calls, level_calls>>

\* lines 353-361: fitz.open, then num_pages
Open ==
    /\ UNCHANGED <<fnVars, batchVars>>
    /\ pc = "open"
    /\ IF doc.opens
       THEN /\ handle' = "open"
            /\ num_pages' = Min(doc.npages, max_pages)
            /\ pc' = "collect"
            /\ UNCHANGED failure
       ELSE /\ pc' = "except"
            /\ failure' = "open"
            /\ UNCHANGED <<handle, num_pages>>
    /\ UNCHANGED <<doc, max_pages, page_num, font_stats, heading_candidates,
                   avg_font_size, lines, line_idx, headings, heading_font_sizes,
                   title, title_rule, h_idx, outline, result,
                   is_heading_calls, level_calls>>

\* lines 370-407: one iteration of the page loop
CollectPage ==
    /\ UNCHANGED <<fnVars, batchVars>>
    /\ pc = "collect"
    /\ ~CollectDone
    /\ LET r == CollectSpans(PageSpans(doc, page_num), page_num,
                             font_stats, heading_candidates)
       IN  /\ font_stats' = r.font_stats
           /\ heading_candidates' = r.heading_candidates
    /\ page_num' = page_num + 1
    /\ UNCHANGED <<pc, doc, max_pages, handle, num_pages, avg_font_size, lines,
                   line_idx, headings, heading_font_sizes, title, title_rule,
                   h_idx, outline, result, failure, is_heading_calls, level_calls>>

\* lines 409-416
ComputeStatistics ==
    /\ UNCHANGED <<fnVars, batchVars>>
    /\ pc = "collect"
    /\ CollectDone
    /\ avg_font_size' = AverageFontSize(font_stats)
    /\ pc' = "merge"
    /\ UNCHANGED <<doc, max_pages, handle, num_pages, page_num, font_stats,
                   heading_candidates, lines, line_idx, headings,
                   heading_font_sizes, title, title_rule, h_idx, outline, result,
                   failure, is_heading_calls, level_calls>>

\* lines 418-438
MergeLines ==
    /\ UNCHANGED <<fnVars, batchVars>>
    /\ pc = "merge"
    /\ lines' = MergeSpans(heading_candidates)
    /\ line_idx' = 1
    /\ pc' = "classify"
    /\ UNCHANGED <<doc, max_pages, handle, num_pages, page_num, font_stats,
                   heading_candidates, avg_font_size, headings,
                   heading_font_sizes, title, title_rule, h_idx, outline, result,
                   failure, is_heading_calls, level_calls>>

\* lines 441-453: one iteration of the loop over the merged lines
ClassifyLine ==
    /\ UNCHANGED <<fnVars, batchVars>>
    /\ pc = "classify"
    /\ line_idx <= Len(lines)
    /\ LET line == lines[line_idx]
           text == clean_text(line.text)
       IN  IF text = <<>>
           THEN UNCHANGED <<headings, heading_font_sizes, is_heading_calls>>
           ELSE /\ is_heading_calls' = Append(is_heading_calls, avg_font_size)
                /\ IF is_heading(text, line.font_size, line.is_bold, avg_font_size)
                   THEN /\ heading_font_sizes' = Append(heading_font_sizes, line.font_size)
                        /\ headings' = Append(headings,
                               [text |-> text, font_size |-> line.font_size,
                                is_bold |-> line.is_bold, page |-> line.page])
                   ELSE UNCHANGED <<headings, heading_font_sizes>>
    /\ line_idx' = line_idx + 1
    /\ UNCHANGED <<pc, doc, max_pages, handle, num_pages, page_num, font_stats,
                   heading_candidates, avg_font_size, lines, title, title_rule,
                   h_idx, outline, result, failure, level_calls>>

\* a plausible slip: extract_title sorts the list it is given (headings.sort)
\* where the code sorts a copy (sorted)
ResolveTitleSortsInPlace ==
    /\ UNCHANGED <<fnVars, batchVars>>
    /\ pc = "classify"
    /\ line_idx > Len(lines)
    /\ LET r == extract_title(doc, headings)
       IN  IF r.raised
           THEN /\ pc' = "except"
                /\ failure' = "title"
                /\ UNCHANGED <<title, title_rule, h_idx, headings>>
           ELSE /\ title' = r.value
                /\ title_rule' = r.rule
                /\ h_idx' = 1
                /\ pc' = "levels"
                /\ headings' = IF doc.title # <<>> /\ Len(Strip(doc.title)) > 3
                               THEN headings
                               ELSE SortHeadings(headings)
                /\ UNCHANGED failure
    /\ UNCHANGED <<doc, max_pages, handle, num_pages, page_num, font_stats,
                   heading_candidates, avg_font_size, lines, line_idx,
                   heading_font_sizes, outline, result, is_heading_calls,
                   level_calls>>

\* lines 455-462: extract_title once every line is classified
ResolveTitle ==
    /\ UNCHANGED <<fnVars, batchVars>>
    /\ pc = "classify"
    /\ line_idx > Len(lines)
    /\ LET r == extract_title(doc, headings)
       IN  IF r.raised
           THEN /\ pc' = "except"
                /\ failure' = "title"
                /\ UNCHANGED <<title, title_rule, h_idx>>
           ELSE /\ title' = r.value
                /\ title_rule' = r.rule
                /\ h_idx' = 1
                /\ pc' = "levels"
                /\ UNCHANGED failure
    /\ UNCHANGED <<doc, max_pages, handle, num_pages, page_num, font_stats,
                   heading_candidates, avg_font_size, lines, line_idx, headings,
                   heading_font_sizes, outline, result, is_heading_calls,
                   level_calls>>

\* lines 463-475: one iteration of the loop over the headings
AssignLevel ==
    /\ UNCHANGED <<fnVars, batchVars>>
    /\ pc = "levels"
    /\ h_idx <= Len(headings)
    /\ LET heading == headings[h_idx]
           level == determine_heading_level(heading.text, heading.font_size,
                                            heading.is_bold, heading_font_sizes)
       IN  outline' = Append(outline,
               [text |-> heading.text, level |-> level, page |-> heading.page])
    /\ level_calls' = Append(level_calls, heading_font_sizes)
    /\ h_idx' = h_idx + 1
    /\ UNCHANGED <<pc, doc, max_pages, handle, num_pages, page_num, font_stats,
                   heading_candidates, avg_font_size, lines, line_idx, headings,
                   heading_font_sizes, title, title_rule, result, failure,
                   is_heading_calls>>

\* lines 477-480: doc.close()
Close ==
    /\ UNCHANGED <<fnVars, batchVars>>
    /\ pc = "levels"
    /\ h_idx > Len(headings)
    /\ handle' = "closed"
    /\ pc' = "return"
    /\ UNCHANGED <<doc, max_pages, num_pages, page_num, font_stats,
                   heading_candidates, avg_font_size, lines, line_idx, headings,
                   heading_font_sizes, title, title_rule, h_idx, outline, result,
                   failure, is_heading_calls, level_calls>>

\* lines 482-491
Return ==
    /\ UNCHANGED <<fnVars, batchVars>>
    /\ pc = "return"
    /\ result' = <<[title |-> title, outline |-> outline]>>
    /\ pc' = "done"
    /\ UNCHANGED <<doc, max_pages, handle, num_pages, page_num, font_stats,
                   heading_candidates, avg_font_size, lines, line_idx, headings,
                   heading_font_sizes, title, title_rule, h_idx, outline, failure,
                   is_heading_calls, level_calls>>

\* any statement inside the try block (lines 355-491) raises: the
\* collaborator fails on a page, a span lacks a field, ...
Raise ==
    /\ UNCHANGED <<fnVars, batchVars>>
    /\ pc \in {"collect", "merge", "classify", "levels", "return"}
    /\ failure' = "raised"
    /\ pc' = "except"
    /\ UNCHANGED <<doc, max_pages, handle, num_pages, page_num, font_stats,
                   heading_candidates, avg_font_size, lines, line_idx, headings,
                   heading_font_sizes, title, title_rule, h_idx, outline, result,
                   is_heading_calls, level_calls>>

\* lines 493-495: the handler
Except ==
    /\ UNCHANGED <<fnVars, batchVars>>
    /\ pc = "except"
    /\ result' = <<ErrorResult>>
    /\ pc' = "done"
    /\ UNCHANGED <<doc, max_pages, handle, num_pages, page_num, font_stats,
                   heading_candidates, avg_font_size, lines, line_idx, headings,
                   heading_font_sizes, title, title_rule, h_idx, outline, failure,
                   is_heading_calls, level_calls>>

(***************************************************************************)
(* extract_outline as one call: the composition of the steps above, with   *)
(* a collaborator that fails only where the document makes it fail.        *)
(***************************************************************************)
\* lines 370-407 for the pages page_index .. np - 1
RECURSIVE CollectPages(_, _, _, _)
CollectPages(d, page_index, np, acc) ==
    IF page_index >= np THEN acc
    ELSE CollectPages(d, page_index + 1, np,
             CollectSpans(PageSpans(d, page_index), page_index,
                          acc.font_stats, acc.heading_candidates))

\* lines 441-453
RECURSIVE ClassifyLines(_, _, _)
ClassifyLines(ls, avg, hs) ==
    IF ls = <<>> THEN hs
    ELSE LET text == clean_text(ls[1].text) IN
         IF text # <<>> /\ is_heading(text, ls[1].font_size, ls[1].is_bold, avg)
         THEN ClassifyLines(Tail(ls), avg,
                  Append(hs, [text |-> text, font_size |-> ls[1].font_size,
                              is_bold |-> ls[1].is_bold, page |-> ls[1].page]))
         ELSE ClassifyLines(Tail(ls), avg, hs)

\* lines 462-475
LevelEntries(hs, sizes) ==
    [i \in 1..Len(hs) |->
        [text |-> hs[i].text,
         level |-> determine_heading_level(hs[i].text, hs[i].font_size,
                                           hs[i].is_bold, sizes),
         page |-> hs[i].page]]

extract_outline(d, mp) ==
    IF ~d.opens THEN ErrorResult
    ELSE LET c == CollectPages(d, 0, Min(d.npages, mp),
                      [font_stats |-> <<>>, heading_candidates |-> <<>>])
             avg == AverageFontSize(c.font_stats)
             hs == ClassifyLines(MergeSpans(c.heading_candidates), avg, <<>>)
             t == extract_title(d, hs)
         IN  IF t.raised THEN ErrorResult
             ELSE [title |-> t.value,
                   outline |-> LevelEntries(hs, [i \in 1..Len(hs) |-> hs[i].font_size])]

(***************************************************************************)
(* process_pdfs  (src/process_pdfs.py:498-560)                             *)
(* A file name is a text.  The directories are "in" (input_dir), "out"     *)
(* (outside it), "in/out" (inside it) and "script/output".                 *)
(***************************************************************************)
DotPdf  == <<".", "p", "d", "f">>
DotJson == <<".", "j", "s", "o", "n">>

\* f.lower().endswith('.pdf')
IsPdfName(name) ==
    Len(name) >= Len(DotPdf)
    /\ Lower(SubSeq(name, Len(name) - Len(DotPdf) + 1, Len(name))) = DotPdf

\* pdf_file.replace('.pdf', '.json')
RECURSIVE ReplacePdf(_)
ReplacePdf(name) ==
    IF name = <<>> THEN <<>>
    ELSE IF Len(name) >= Len(DotPdf) /\ SubSeq(name, 1, Len(DotPdf)) = DotPdf
         THEN DotJson \o ReplacePdf(SubSeq(name, Len(DotPdf) + 1, Len(name)))
         ELSE <<name[1]>> \o ReplacePdf(Tail(name))

\* line 506: output_dir is input_dir or lies inside it
InsideInput(dir) == dir \in {"in", "in/out"}

\* ensure_unicode (lines 533-547): NFC on every string of the result
ensure_unicode(r) ==
    [title |-> NFC(r.title),
     outline |-> [i \in 1..Len(r.outline) |->
                     [text |-> NFC(r.outline[i].text),
                      level |-> r.outline[i].level,
                      page |-> r.outline[i].page]]]

\* codecs.open(path, 'w') and f.write: the file at path now holds content
WriteFile(files, path, content) ==
    {w \in files : ~(w.dir = path.dir /\ w.name = path.name)}
    \cup {[dir |-> path.dir, name |-> path.name, content |-> content]}

\* lines 505-521
BatchStart ==
    /\ b_pc = "start"
    /\ output_dir' = IF InsideInput(output_dir) THEN "script/output" ELSE output_dir
    /\ pdf_files' = SelectSeq(input_dir, LAMBDA f : IsPdfName(f.name))
    /\ file_idx' = 1
    /\ b_pc' = IF SelectSeq(input_dir, LAMBDA f : IsPdfName(f.name)) = <<>>
               THEN "done" ELSE "loop"
    /\ UNCHANGED <<input_dir, pdf_file, output_file, b_result, written>>
    /\ UNCHANGED <<fnVars, pipeVars>>

\* lines 524-550: one iteration of the loop over pdf_files
BatchFile ==
    /\ b_pc = "loop"
    /\ file_idx <= Len(pdf_files)
    /\ pdf_file' = pdf_files[file_idx]
    /\ output_file' = [dir |-> output_dir, name |-> ReplacePdf(pdf_files[file_idx].name)]
    /\ b_result' = <<ensure_unicode(extract_outline(pdf_files[file_idx].doc,
                                                    DefaultMaxPages))>>
    /\ file_idx' = file_idx + 1
    /\ UNCHANGED <<b_pc, input_dir, output_dir, pdf_files, written>>
    /\ UNCHANGED <<fnVars, pipeVars>>

\* lines 552-560: after the loop, the with block writes output_file
BatchWrite ==
    /\ b_pc = "loop"
    /\ file_idx > Len(pdf_files)
    /\ written' = WriteFile(written, output_file, b_result[1])
    /\ b_pc' = "done"
    /\ UNCHANGED <<input_dir, output_dir, pdf_files, file_idx, pdf_file,
                   output_file, b_result>>
    /\ UNCHANGED <<fnVars, pipeVars>>

(***************************************************************************)
(* The parts of the state a specification does not use stay idle.          *)
(***************************************************************************)
NoDoc == [opens |-> FALSE, title |-> <<>>, npages |-> 0, spans |-> <<>>]

FnIdle == fn_pc = "idle" /\ fn_arg = <<>> /\ fn_ret = <<>>

\* the state of extract_outline before its first statement, pc aside
PipeFresh ==
    /\ handle = "none"
    /\ num_pages = 0
    /\ page_num = 0
    /\ font_stats = <<>>
    /\ heading_candidates = <<>>
    /\ avg_font_size = [num |-> 0, den |-> 0]
    /\ lines = <<>>
    /\ line_idx = 0
    /\ headings = <<>>
    /\ heading_font_sizes = <<>>
    /\ title = <<>>
    /\ title_rule = "none"
    /\ h_idx = 0
    /\ outline = <<>>
    /\ result = <<>>
    /\ failure = "none"
    /\ is_heading_calls = <<>>
    /\ level_calls = <<>>

PipeIdle == pc = "idle" /\ doc = NoDoc /\ max_pages = 0 /\ PipeFresh

NoFile == [name |-> <<>>, doc |-> NoDoc]
NoPath == [dir |-> "", name |-> <<>>]

\* the state of process_pdfs before its first statement, its arguments aside
BatchFresh ==
    /\ pdf_files = <<>>
    /\ file_idx = 0
    /\ pdf_file = NoFile
    /\ output_file = NoPath
    /\ b_result = <<>>
    /\ written = {}

BatchIdle == b_pc = "idle" /\ input_dir = <<>> /\ output_dir = "" /\ BatchFresh

(***************************************************************************)
(* Specification SpecClean: clean_text applied to a drawn text, then to    *)
(* its own result.                                                         *)
(***************************************************************************)
CleanAlphabet == {"a", "=", ".", "-", " ", IDEO, REPL, BEL, OVERLAY}

InitClean ==
    /\ fn_pc = "call"
    /\ fn_arg \in TextsUpTo(CleanAlphabet, MaxLen)
    /\ fn_ret = <<>>
    /\ PipeIdle
    /\ BatchIdle

CleanFirst ==
    /\ fn_pc = "call"
    /\ fn_ret' = <<clean_text(fn_arg)>>
    /\ fn_pc' = "once"
    /\ UNCHANGED <<fn_arg, pipeVars, batchVars>>

CleanAgain ==
    /\ fn_pc = "once"
    /\ fn_ret' = Append(fn_ret, clean_text(fn_ret[1]))
    /\ fn_pc' = "twice"
    /\ UNCHANGED <<fn_arg, pipeVars, batchVars>>

NextClean == CleanFirst \/ CleanAgain

SpecClean == InitClean /\ [][NextClean]_vars

\* C5: clean_text is idempotent: cleaning a cleaned text changes nothing.
C5_CleanIdempotent ==
    fn_pc = "twice" => fn_ret[2] = fn_ret[1]

(***************************************************************************)
(* Specification SpecLevel: determine_heading_level applied to drawn       *)
(* arguments.                                                              *)
(***************************************************************************)
FontSizes == {10 * Pt, 13 * Pt, 16 * Pt}

T_1_A     == <<"1", ".", " ", "A">>
T_1_1_B   == <<"1", ".", "1", " ", "B">>
T_1_1_1_C == <<"1", ".", "1", ".", "1", " ", "C">>

LevelTexts ==
    {T_1_A, T_1_1_B, T_1_1_1_C,
     <<"I", "n", "d", "e", "x">>,
     <<"C", "h", "a", "p", "t", "e", "r", " ", "2">>,
     <<"u2460", "A">>,
     <<"N", "o", "t", "e", "s">>}

SizeListsUpTo(n) == UNION {[1..k -> FontSizes] : k \in 0..n}

InitLevel ==
    /\ fn_pc = "call"
    /\ fn_arg \in [text : LevelTexts, font_size : FontSizes, is_bold : BOOLEAN,
                   font_sizes : SizeListsUpTo(MaxSizes)]
    /\ fn_ret = <<>>
    /\ PipeIdle
    /\ BatchIdle

LevelCall ==
    /\ fn_pc = "call"
    /\ fn_ret' = <<determine_heading_level(fn_arg.text, fn_arg.font_size,
                                           fn_arg.is_bold, fn_arg.font_sizes)>>
    /\ fn_pc' = "once"
    /\ UNCHANGED <<fn_arg, pipeVars, batchVars>>

NextLevel == LevelCall

SpecLevel == InitLevel /\ [][NextLevel]_vars

\* C4: "1. A", "1.1 B" and "1.1.1 C" get exactly H1, H2 and H3, whatever the
\* font size, the bold flag and the list of heading font sizes.
C4_NumberingDepthLevels ==
    fn_pc = "once" =>
        /\ fn_arg.text = T_1_A => fn_ret[1] = "H1"
        /\ fn_arg.text = T_1_1_B => fn_ret[1] = "H2"
        /\ fn_arg.text = T_1_1_1_C => fn_ret[1] = "H3"

(***************************************************************************)
(* Specification SpecTitle: extract_title applied to a drawn document and  *)
(* a drawn list of headings.                                               *)
(***************************************************************************)
T_Intro == <<"I", "n", "t", "r", "o">>
T_Notes == <<"N", "o", "t", "e", "s">>
T_Title == <<"T", "i", "t", "l", "e">>
T_ab    == <<"a", "b">>
T_cd    == <<"c", "d">>
\* 75 wide characters: effective length 150
T_LongCJK == [i \in 1..75 |-> ZHANG]

TitleMetas ==
    {<<>>,
     <<"a", "b">>,
     <<" ", " ", "a", " ", " ">>,
     <<"B", "o", "o", "k">>,
     <<" ", "B", "o", "o", "k", ".", " ">>}

TitleHeadingPool ==
    {[text |-> T_Intro,   font_size |-> 13 * Pt, is_bold |-> FALSE, page |-> 1],
     [text |-> T_Notes,   font_size |-> 16 * Pt, is_bold |-> FALSE, page |-> 1],
     [text |-> T_1_A,     font_size |-> 16 * Pt, is_bold |-> TRUE,  page |-> 1],
     [text |-> T_LongCJK, font_size |-> 16 * Pt, is_bold |-> FALSE, page |-> 1],
     [text |-> T_Title,   font_size |-> 10 * Pt, is_bold |-> FALSE, page |-> 2]}

TitleSpanPool ==
    {[text |-> <<" ">> \o T_Title, size |-> 16 * Pt, flags |-> 0, font |-> "Helvetica", page |-> 0],
     [text |-> T_Notes, size |-> 13 * Pt, flags |-> 0, font |-> "Helvetica", page |-> 0],
     [text |-> T_ab,    size |-> 10 * Pt, flags |-> 0, font |-> "Helvetica", page |-> 0],
     [text |-> T_cd,    size |-> 13 * Pt, flags |-> 2, font |-> "Helvetica", page |-> 0]}

SeqsUpTo(S, n) == UNION {[1..k -> S] : k \in 0..n}

TitleDocs ==
    {[opens |-> TRUE, title |-> m, npages |-> 0, spans |-> <<>>] : m \in TitleMetas}
    \cup {[opens |-> TRUE, title |-> m, npages |-> 1, spans |-> sp] :
              m \in TitleMetas, sp \in SeqsUpTo(TitleSpanPool, MaxTitleSpans)}

InitTitle ==
    /\ fn_pc = "call"
    /\ fn_arg \in [doc : TitleDocs, headings : SeqsUpTo(TitleHeadingPool, MaxHeadings)]
    /\ fn_ret = <<>>
    /\ PipeIdle
    /\ BatchIdle

TitleCall ==
    /\ fn_pc = "call"
    /\ fn_ret' = <<extract_title(fn_arg.doc, fn_arg.headings)>>
    /\ fn_pc' = "once"
    /\ UNCHANGED <<fn_arg, pipeVars, batchVars>>

NextTitle == TitleCall

SpecTitle == InitTitle /\ [][NextTitle]_vars

\* the metadata title is present and longer than 3 characters after trimming
TitleMetaValid(d) == d.title # <<>> /\ Len(Strip(d.title)) > 3

\* hs[i] is the earliest-page heading, the largest font among those, and the
\* first detected among equals
EarliestLargest(hs, i) ==
    \A j \in 1..Len(hs) :
        j # i =>
            \/ hs[i].page < hs[j].page
            \/ hs[i].page = hs[j].page /\ hs[i].font_size > hs[j].font_size
            \/ hs[i].page = hs[j].page /\ hs[i].font_size = hs[j].font_size /\ i < j

T_Overview == <<"1", ".", " ", "O", "v", "e", "r", "v", "i", "e", "w">>
T_Details  == <<"1", ".", "1", " ", "D", "e", "t", "a", "i", "l", "s">>

\* what a span carries apart from its page
SpanPool ==
    {[text |-> T_Overview, size |-> 16 * Pt, flags |-> 0, font |-> "Helvetica-Bold"],
     [text |-> T_Details,  size |-> 13 * Pt, flags |-> 0, font |-> "Helvetica"],
     [text |-> T_Notes \o <<" ", "-">>, size |-> 13 * Pt, flags |-> 2, font |-> "Helvetica"],
     [text |-> <<"t", "e", "x", "t", " ">>, size |-> 10 * Pt, flags |-> 0, font |-> "Helvetica"],
     [text |-> <<" ">>,    size |-> 10 * Pt, flags |-> 0, font |-> "Helvetica"]}

\* the page indexes of n spans in reading order, in a document of np pages
PageIndexes(n, np) ==
    {f \in [1..n -> 0..(np - 1)] : \A i \in 1..(n - 1) : f[i] <= f[i + 1]}

OnPage(sp, page_index) ==
    [text |-> sp.text, size |-> sp.size, flags |-> sp.flags, font |-> sp.font,
     page |-> page_index]

DocTitles == {<<>>, <<" ", "B", "o", "o", "k", ":">>}

\* the documents drawn: every document of at most MaxDocPages pages holding
\* at most MaxSpans spans of the pool, and one that cannot be opened
IsDoc(d) ==
    \/ d = NoDoc
    \/ \E np \in 0..MaxDocPages, n \in 0..MaxSpans :
           \E sp \in [1..n -> SpanPool], pg \in PageIndexes(n, np), t \in DocTitles :
               d = [opens |-> TRUE, title |-> t, npages |-> np,
                    spans |-> [i \in 1..n |-> OnPage(sp[i], pg[i])]]

Init ==
    /\ FnIdle
    /\ BatchIdle
    /\ pc = "open"
    /\ IsDoc(doc)
    /\ max_pages \in {1, DefaultMaxPages}
    /\ PipeFresh

Next ==
    \/ Open
    \/ CollectPage
    \/ ComputeStatistics
    \/ MergeLines
    \/ ClassifyLine
    \/ ResolveTitle
    \/ AssignLevel
    \/ Close
    \/ Return
    \/ Raise
    \/ Except

Spec == Init /\ [][Next]_vars

\* the value extract_outline returned
Returned == result[1]

\* C1: once any stage of extract_outline has raised, control is in the
\* handler or the call has returned, and what it returns is exactly
\* {title: "Error", outline: []}, never the outline built so far.
C1_FailSoft ==
    failure # "none" =>
        /\ pc \in {"except", "done"}
        /\ pc = "done" =>
               result = <<[title |-> <<"E", "r", "r", "o", "r">>, outline |-> <<>>]>>

\* C1 witness: a stage raised after headings were levelled, and the call
\* returned the degraded result.
C1_Witness ==
    /\ pc = "done"
    /\ failure = "raised"
    /\ outline # <<>>
    /\ Returned.outline = <<>>

\* C2: when the call returns, a handle that was opened is closed.
C2_HandleClosedOnReturn ==
    pc = "done" /\ handle # "none" => handle = "closed"

\* no span of the document has text left after stripping
EmptyDoc(d) == \A i \in 1..Len(d.spans) : Strip(d.spans[i].text) = <<>>

\* C3: an empty document (zero pages, or pages without extractable spans)
\* with no valid metadata title, on which the collaborator does not fail,
\* gives {title: "Untitled Document", outline: []}.
C3_EmptyDocumentUntitled ==
    (/\ pc = "done"
     /\ doc.opens
     /\ failure # "raised"
     /\ EmptyDoc(doc)
     /\ ~TitleMetaValid(doc))
    => result = <<[title |-> UntitledDocument, outline |-> <<>>]>>

\* C7: every string of a successful result, the title and each outline
\* entry's text, is in normalized form: clean_text leaves it unchanged.
C7_OutputNormalized ==
    pc = "done" /\ failure = "none" =>
        /\ clean_text(Returned.title) = Returned.title
        /\ \A i \in 1..Len(Returned.outline) :
               clean_text(Returned.outline[i].text) = Returned.outline[i].text

\* the font sizes of every span with text on the pages the call processes
AllSpanSizes ==
    LET limit == Min(doc.npages, max_pages)
        kept == SelectSeq(doc.spans,
                    LAMBDA sp : sp.page < limit /\ Strip(sp.text) # <<>>)
    IN  [i \in 1..Len(kept) |-> kept[i].size]

\* the lines that are headings when classified with the complete average
AcceptedLines ==
    LET avg == [num |-> Sum(AllSpanSizes), den |-> Max(1, Len(AllSpanSizes))]
    IN  SelectSeq(lines,
            LAMBDA ln : /\ clean_text(ln.text) # <<>>
                        /\ is_heading(clean_text(ln.text), ln.font_size, ln.is_bold, avg))

\* C8: every is_heading call is made after all pages are collected and gets
\* the average over all their spans; every determine_heading_level call is
\* made after all lines are classified and gets the font sizes of all the
\* accepted headings.  The calls are recorded as they are made, in the
\* classification loop and in the level loop; no later step changes the
\* records or what they are compared with.
C8_TwoPhase ==
    /\ pc = "classify" /\ is_heading_calls # <<>> =>
           LET sizes == AllSpanSizes
               avg == [num |-> Sum(sizes), den |-> Max(1, Len(sizes))]
           IN  /\ page_num = Min(doc.npages, max_pages)
               /\ font_stats = sizes
               /\ \A i \in 1..Len(is_heading_calls) : is_heading_calls[i] = avg
    /\ pc = "levels" /\ level_calls # <<>> =>
           LET accepted == AcceptedLines
               accepted_sizes == [j \in 1..Len(accepted) |-> accepted[j].font_size]
           IN  /\ line_idx = Len(lines) + 1
               /\ Len(headings) = Len(accepted)
               /\ \A i \in 1..Len(level_calls) : level_calls[i] = accepted_sizes

\* C8 witness: a two-page document with spans on both pages, several lines
\* classified and several headings levelled.
C8_Witness ==
    /\ pc = "done"
    /\ failure = "none"
    /\ num_pages = 2
    /\ \E i \in 1..Len(doc.spans) : doc.spans[i].page = 1
    /\ Len(is_heading_calls) >= 3
    /\ Len(level_calls) >= 2
    /\ Len(headings) < Len(lines)

\* the document of the scenario: no metadata title, and exactly the spans
\* "1. Overview" at 16 and "1.1 Details" at 13 on page 1
OverviewDetailsDoc(d) ==
    /\ d.opens
    /\ d.title = <<>>
    /\ d.npages >= 1
    /\ Len(d.spans) = 2
    /\ d.spans[1].text = T_Overview /\ d.spans[1].size = 16 * Pt /\ d.spans[1].page = 0
    /\ d.spans[2].text = T_Details /\ d.spans[2].size = 13 * Pt /\ d.spans[2].page = 0

\* C10: for that document the outline is "1. Overview" at H1 then
\* "1.1 Details" at H2, both on page 1, and the title comes from the
\* largest-first-page-span fallback, not from the heading rule.
C10_OverviewDetails ==
    pc = "done" /\ failure = "none" /\ OverviewDetailsDoc(doc) =>
        /\ Returned.outline =
               <<[text |-> T_Overview, level |-> "H1", page |-> 1],
                 [text |-> T_Details, level |-> "H2", page |-> 1]>>
        /\ title_rule = "largest_span"
        /\ Returned.title = T_Overview

\* C10 witness: the call on that document returned normally.
C10_Witness ==
    /\ pc = "done"
    /\ failure = "none"
    /\ OverviewDetailsDoc(doc)
    /\ Len(Returned.outline) = 2

\* C11: the outline returned has exactly one entry per accepted heading, in
\* the order the headings were accepted (the order of the merged lines):
\* entry i carries the cleaned text and the page of the i-th accepted line,
\* so page numbers never decrease along the outline and entries of one page
\* keep detection order; the sort inside extract_title leaves that order
\* alone.
C11_OutlineKeepsOrder ==
    pc = "done" /\ failure = "none" =>
        LET accepted == AcceptedLines IN
        /\ Len(Returned.outline) = Len(accepted)
        /\ Len(Returned.outline) = Len(headings)
        /\ \A i \in 1..Len(Returned.outline) :
               /\ Returned.outline[i].text = clean_text(accepted[i].text)
               /\ Returned.outline[i].page = accepted[i].page
               /\ Returned.outline[i].text = headings[i].text
        /\ \A i \in 1..(Len(Returned.outline) - 1) :
               Returned.outline[i].page <= Returned.outline[i + 1].page

\* C11 witness: extract_title went as far as sorting the headings, the sorted
\* order differs from the order of acceptance, and the call returned an
\* outline with two entries of one page.
C11_Witness ==
    /\ pc = "done"
    /\ failure = "none"
    /\ doc.title = <<>>
    /\ Len(Returned.outline) >= 2
    /\ SortHeadings(headings) # headings
    /\ Returned.outline[1].page = Returned.outline[2].page

\* the spans with text on the pages of index below both len(doc) and
\* max_pages, in reading order
SpansWithinCap ==
    SelectSeq(doc.spans,
        LAMBDA sp : /\ sp.page < doc.npages
                    /\ sp.page < max_pages
                    /\ Strip(sp.text) # <<>>)

\* C12: every outline entry has a page p with 1 <= p <= min(number of
\* pages, max_pages), p being the index of a processed page plus one; the
\* font statistics and the candidates come, in order, from the spans of the
\* pages below the cap and from no other span.  The statistics and the
\* candidates are looked at while the page loop fills them and when it has
\* ended, the outline while the level loop fills it; no later step changes
\* them.
C12_PagesWithinCap ==
    /\ pc \in {"collect", "merge"} =>
           LET kept == SpansWithinCap IN
           /\ Len(font_stats) <= Len(kept)
           /\ Len(heading_candidates) = Len(font_stats)
           /\ \A i \in 1..Len(font_stats) :
                  /\ font_stats[i] = kept[i].size
                  /\ heading_candidates[i].page = kept[i].page + 1
           /\ pc = "merge" => Len(font_stats) = Len(kept)
    /\ pc = "levels" =>
           \A i \in 1..Len(outline) :
               /\ 1 <= outline[i].page
               /\ outline[i].page <= doc.npages
               /\ outline[i].page <= max_pages
               /\ \E k \in 1..Len(doc.spans) :
                      /\ Strip(doc.spans[k].text) # <<>>
                      /\ outline[i].page = doc.spans[k].page + 1

\* C12 witness: a two-page document read with max_pages = 1 whose second
\* page holds a numbered heading; the call returned an outline.
C12_Witness ==
    /\ pc = "done"
    /\ failure = "none"
    /\ max_pages = 1
    /\ doc.npages = 2
    /\ \E i \in 1..Len(doc.spans) :
           doc.spans[i].page = 1 /\ doc.spans[i].text = T_Overview
    /\ Returned.outline # <<>>

(***************************************************************************)
(* Specification SpecBatch: one call of process_pdfs on a drawn input      *)
(* directory.                                                              *)
(***************************************************************************)
FileNames ==
    {<<"a">> \o DotPdf,
     <<"b", ".", "P", "D", "F">>,
     <<"c", ".", "t", "x", "t">>,
     <<"d">> \o DotPdf}

BatchDocs ==
    {NoDoc,
     [opens |-> TRUE, title |-> <<>>, npages |-> 1,
      spans |-> <<[text |-> T_Notes, size |-> 13 * Pt, flags |-> 2, font |-> "Helvetica",
                   page |-> 0]>>],
     [opens |-> TRUE, title |-> <<>>, npages |-> 1,
      spans |-> <<[text |-> T_Overview, size |-> 16 * Pt, flags |-> 0, font |-> "Helvetica",
                   page |-> 0],
                  [text |-> T_Details, size |-> 13 * Pt, flags |-> 0, font |-> "Helvetica",
                   page |-> 0]>>]}

\* a directory listing: at most MaxFiles files with distinct names, in any order
IsListing(fs) ==
    \E n \in 0..MaxFiles :
        \E names \in [1..n -> FileNames], docs \in [1..n -> BatchDocs] :
            /\ \A i, j \in 1..n : i # j => names[i] # names[j]
            /\ fs = [i \in 1..n |-> [name |-> names[i], doc |-> docs[i]]]

InitBatch ==
    /\ FnIdle
    /\ PipeIdle
    /\ b_pc = "start"
    /\ IsListing(input_dir)
    /\ output_dir \in {"out", "in/out"}
    /\ BatchFresh

NextBatch == BatchStart \/ BatchFile \/ BatchWrite

SpecBatch == InitBatch /\ [][NextBatch]_vars

\* the name with its last four characters (the extension) replaced by .json
JsonName(name) == SubSeq(name, 1, Len(name) - 4) \o DotJson

\* C6: after process_pdfs on a directory holding N >= 1 files with a
\* case-insensitive .pdf extension, each of them has its own output file,
\* named as the input with the extension replaced by .json and holding that
\* file's extraction result: N output files in all.
C6_OneOutputPerPdf ==
    LET pdfs == {i \in 1..Len(input_dir) : IsPdfName(input_dir[i].name)} IN
    b_pc = "done" /\ pdfs # {} =>
        /\ \A i \in pdfs :
               \E w \in written :
                   /\ w.name = JsonName(input_dir[i].name)
                   /\ w.content = ensure_unicode(extract_outline(input_dir[i].doc,
                                                                 DefaultMaxPages))
        /\ Cardinality(written) = Cardinality(pdfs)

(***************************************************************************)
(* Specification SpecMerge: the line-merging pass applied to a drawn list  *)
(* of heading candidates, as the page loop can leave it: texts not empty,  *)
(* pages in ascending order.                                               *)
(***************************************************************************)
\* 10, 10.5 and 11 points
MergeSizes == {10 * Pt, 10 * Pt + 1, 11 * Pt}

MergeCandidates ==
    [text : {<<"a">>, <<"b">>}, font_size : MergeSizes, is_bold : BOOLEAN,
     page : {1, 2}]

InitMerge ==
    /\ fn_pc = "call"
    /\ \E n \in 0..MaxCandidates :
           /\ fn_arg \in [1..n -> MergeCandidates]
           /\ \A i \in 1..(n - 1) : fn_arg[i].page <= fn_arg[i + 1].page
    /\ fn_ret = <<>>
    /\ PipeIdle
    /\ BatchIdle

MergeCall ==
    /\ fn_pc = "call"
    /\ fn_ret' = <<MergeSpans(fn_arg)>>
    /\ fn_pc' = "once"
    /\ UNCHANGED <<fn_arg, pipeVars, batchVars>>

NextMerge == MergeCall

SpecMerge == InitMerge /\ [][NextMerge]_vars

\* the candidate cands[k] extends the line that cands[a] started
Extends(cands, a, k) ==
    /\ cands[k].page = cands[a].page
    /\ Abs(cands[k].font_size - cands[a].font_size) < Pt

\* the index of the candidate that started the line cands[k] went to, when
\* a candidate extends the line being built exactly if Extends says so
RECURSIVE LineStart(_, _)
LineStart(cands, k) ==
    IF k = 1 THEN 1
    ELSE LET a == LineStart(cands, k - 1)
         IN  IF Extends(cands, a, k) THEN a ELSE k

\* the line made of cands[a..b]: the texts joined by one space, the bold
\* flags ORed, the font size and the page of cands[a]
LineOf(cands, a, b) ==
    [text |-> JoinSpace([i \in 1..(b - a + 1) |-> cands[a + i - 1].text]),
     font_size |-> cands[a].font_size,
     is_bold |-> \E i \in a..b : cands[i].is_bold,
     page |-> cands[a].page]

\* C13: the lines emitted are, in order, one per candidate that does not
\* extend the line before it; a candidate extends the line being built if
\* and only if it is on the page of the line's first span and its font size
\* is less than one point away from that span's; each line is its
\* candidates' texts joined by " ", their bold flags ORed, with the font
\* size and page of its first span.
C13_MergeRule ==
    fn_pc = "once" =>
        LET cands == fn_arg
            n == Len(cands)
            starts == {k \in 1..n : LineStart(cands, k) = k}
            end(a) == CHOOSE b \in a..n :
                          /\ \A k \in a..b : LineStart(cands, k) = a
                          /\ b = n \/ LineStart(cands, b + 1) # a
        IN  /\ Len(fn_ret[1]) = Cardinality(starts)
            /\ \A a \in starts :
                   fn_ret[1][Cardinality({k \in starts : k <= a})]
                       = LineOf(cands, a, end(a))

\* C13 witness: three spans of one page at 10, 10.5 and 11 points, the
\* second one bold: the first two are merged into a bold line of size 10,
\* and the third, half a point from the second but a whole point from the
\* first, starts a new line.
C13_Witness ==
    /\ fn_pc = "once"
    /\ Len(fn_arg) = 3
    /\ \A i \in 1..3 : fn_arg[i].page = 1
    /\ fn_arg[1].font_size = 10 * Pt /\ ~fn_arg[1].is_bold
    /\ fn_arg[2].font_size = 10 * Pt + 1 /\ fn_arg[2].is_bold
    /\ fn_arg[3].font_size = 11 * Pt
    /\ Len(fn_ret[1]) = 2
    /\ fn_ret[1][1].text = fn_arg[1].text \o <<" ">> \o fn_arg[2].text
    /\ fn_ret[1][1].font_size = 10 * Pt
    /\ fn_ret[1][1].is_bold
    /\ fn_ret[1][2] = fn_arg[3]

\* the texts of a list of candidates or of lines, in order
TextsOf(xs) == [i \in 1..Len(xs) |-> xs[i].text]

\* the lines ls split the candidates cands into consecutive runs, one run
\* per line and none empty: a line's text is its run's texts joined by one
\* space and every candidate of the run is on the line's page
RECURSIVE SplitsInto(_, _)
SplitsInto(cands, ls) ==
    IF ls = <<>> THEN cands = <<>>
    ELSE \E k \in 1..Len(cands) :
             /\ ls[1].text = JoinSpace(TextsOf(SubSeq(cands, 1, k)))
             /\ \A i \in 1..k : cands[i].page = ls[1].page
             /\ SplitsInto(SubSeq(cands, k + 1, Len(cands)), Tail(ls))

\* C16: the merging pass neither drops, duplicates nor reorders spans: every
\* candidate goes to exactly one line, the lines' texts joined by spaces are
\* the candidates' texts joined by spaces, no line has an empty text, and
\* the spans of one line are all on one page.
C16_MergeKeepsSpans ==
    fn_pc = "once" =>
        /\ SplitsInto(fn_arg, fn_ret[1])
        /\ JoinSpace(TextsOf(fn_ret[1])) = JoinSpace(TextsOf(fn_arg))
        /\ \A i \in 1..Len(fn_ret[1]) : fn_ret[1][i].text # <<>>

\* C16 witness: three candidates over two pages, the first two merged into
\* one line and the third, on the next page, in a line of its own.
C16_Witness ==
    /\ fn_pc = "once"
    /\ Len(fn_arg) = 3
    /\ fn_arg[1].page = 1 /\ fn_arg[2].page = 1 /\ fn_arg[3].page = 2
    /\ fn_arg[1].text # fn_arg[2].text
    /\ fn_arg[3].font_size = fn_arg[1].font_size
    /\ Len(fn_ret[1]) = 2
    /\ fn_ret[1][1].text = fn_arg[1].text \o <<" ">> \o fn_arg[2].text
    /\ fn_ret[1][2].text = fn_arg[3].text

\* C15 (checked under SpecLevel): for a text no pattern applies to and a
\* list of heading font sizes that is not empty, the three-way bucketing
\* (H1 at 0.9 of the largest size or above, else H2 at 0.9 of the
\* middle-index size or above, else H3) is used only when the list holds at
\* least 3 distinct sizes; with fewer the level is H1 at 0.9 of the largest
\* size or above, otherwise H2 if bold, else H3.
C15_BucketsNeedThreeDistinctSizes ==
    fn_pc = "once" /\ fn_arg.text = T_Notes /\ fn_arg.font_sizes # <<>> =>
        LET sizes == fn_arg.font_sizes
            sorted_sizes == SortDesc(sizes)
            distinct == Cardinality({sizes[i] : i \in 1..Len(sizes)})
            middle == sorted_sizes[(Len(sorted_sizes) \div 2) + 1]
        IN  fn_ret[1] =
                IF 10 * fn_arg.font_size >= 9 * sorted_sizes[1] THEN "H1"
                ELSE IF distinct >= 3
                     THEN IF 10 * fn_arg.font_size >= 9 * middle THEN "H2" ELSE "H3"
                     ELSE IF fn_arg.is_bold THEN "H2" ELSE "H3"

(***************************************************************************)
(* Specification SpecHeading: is_heading applied to a drawn text, font     *)
(* size, bold flag and average font size.                                  *)
(***************************************************************************)
T_ZhangZhang == <<ZHANG, ZHANG>>
T_Zhang1     == <<ZHANG, "1">>
T_Wide100    == [i \in 1..100 |-> ZHANG]
T_Wide101    == [i \in 1..101 |-> ZHANG]
T_Latin150   == [i \in 1..150 |-> "A"]

HeadingTexts ==
    {<<"a", "b">>, <<"A", "b", "c">>, <<"a", "=", "=", "b">>,
     <<"a", "b", "c", " ", "d", "e", "f">>,
     T_ZhangZhang, T_Zhang1, T_Wide100, T_Wide101, T_Latin150}

\* 10, 11.5, 13 and 16 points
HeadingAverages ==
    {[num |-> 10 * Pt, den |-> 1], [num |-> 23 * Pt, den |-> 2],
     [num |-> 13 * Pt, den |-> 1], [num |-> 16 * Pt, den |-> 1]}

InitHeading ==
    /\ fn_pc = "call"
    /\ fn_arg \in [text : HeadingTexts, font_size : FontSizes, is_bold : BOOLEAN,
                   avg_font_size : HeadingAverages]
    /\ fn_ret = <<>>
    /\ PipeIdle
    /\ BatchIdle

HeadingCall ==
    /\ fn_pc = "call"
    /\ fn_ret' = <<is_heading(fn_arg.text, fn_arg.font_size, fn_arg.is_bold,
                              fn_arg.avg_font_size)>>
    /\ fn_pc' = "once"
    /\ UNCHANGED <<fn_arg, pipeVars, batchVars>>

NextHeading == HeadingCall

SpecHeading == InitHeading /\ [][NextHeading]_vars

\* a rejection rule other than the length rules applies to the text: a run
\* of special characters, an attribution phrase, a long sentence
OtherRejection(text) ==
    \/ \E i \in 1..(Len(text) - 1) : text[i] \in NoiseCh /\ text[i + 1] \in NoiseCh
    \/ \E p \in AttributionEnglish : Contains(Lower(text), p)
    \/ \E p \in AttributionJapanese \cup AttributionHindi : Contains(text, p)
    \/ /\ EndsWithEndPunct(text)
       /\ EffectiveLength(text) > 100
       /\ ~MatchNumberedPrefix(text)

\* one of the acceptance rules 1 to 4 applies: numbering, a chapter marker,
\* a font more than 1.2 times the average, bold at the average or above
AcceptanceRule(text, font_size, is_bold, avg) ==
    \/ MatchNumberedPrefix(text)
    \/ MatchChapter(text, HeadingChapterWords)
    \/ 10 * font_size * avg.den > 12 * avg.num
    \/ is_bold /\ font_size * avg.den >= avg.num

\* C14: is_heading rejects a text as too short exactly when its effective
\* length (wide and fullwidth characters count 2) is below 3, and as too
\* long when it is above 200: a text of effective length below 3 or above
\* 200 is rejected, and a text of effective length 3 to 200 that no other
\* rejection rule applies to and that satisfies an acceptance rule is
\* accepted.
C14_EffectiveLengthRule ==
    fn_pc = "once" =>
        LET text == fn_arg.text
            n == EffectiveLength(text)
        IN  /\ n < 3 => ~fn_ret[1]
            /\ n > 200 => ~fn_ret[1]
            /\ (/\ n >= 3
                /\ n <= 200
                /\ ~OtherRejection(text)
                /\ AcceptanceRule(text, fn_arg.font_size, fn_arg.is_bold,
                                  fn_arg.avg_font_size))
               => fn_ret[1]

\* the stepwise model of extract_outline and the one-call operator agree
StepsAgreeWithCall ==
    pc = "done" /\ failure # "raised" => Returned = extract_outline(doc, max_pages)

====
